---- MODULE Spec2Model ----
(***************************************************************************)
(* brdb_optimize: src/src/main.rs.                                         *)
(* The program reads a world (entity chunks, brick grids with component    *)
(* chunks), freezes wheel and ball entities, clamps lights, neutralizes    *)
(* weights on the main grid, and writes the result to a new file as a      *)
(* patch on top of the source, unless a corrupt component chunk was met.   *)
(***************************************************************************)
EXTENDS Integers, Sequences, FiniteSets, TLC

VARIABLES
    src,                     \* the world opened by Brdb::open(src) (read only during a run)
    dst,                     \* the destination file: <<>> absent, <<w>> present with content w
    pc,                      \* position of main
    chunk_i,                 \* position of the entity-chunk loop (line 66)
    num_entities_modified,   \* line 54
    num_components_modified, \* line 55
    corrupted,               \* line 56
    entity_chunk_files,      \* line 65
    entities_patch,          \* line 116
    grid_ids,                \* line 137
    grid_i,                  \* position of the grid loop (line 158)
    brick_i,                 \* position of the chunk loop (line 165)
    chunk_files,             \* line 161
    num_grid_modified,       \* line 162
    brick_grids_folder,      \* line 155
    components_patch,        \* line 359
    exit_code,               \* process exit status, -1 while running
    stdout,                  \* the "optimized {} entities and {} components!" lines (379)
    fs_log,                  \* file-system operations done on dst (391, 393)
    visited,                 \* brick chunks the chunk loop has reached: <<grid_i, brick_i>>
    grid_log,                \* per-grid counters at the end of each grid iteration
    run                      \* how many times the tool has been started

vars == <<src, dst, pc, chunk_i, num_entities_modified, num_components_modified,
          corrupted, entity_chunk_files, entities_patch, grid_ids, grid_i, brick_i,
          chunk_files, num_grid_modified, brick_grids_folder, components_patch,
          exit_code, stdout, fs_log, visited, grid_log, run>>

-----------------------------------------------------------------------------
(* Bounds of the model *)

MaxEntities == 2
MaxComponents == 2
MaxRuns == 2

(* Program constants *)

MainGrid == 1
RadiusLimit == 5000
BrightnessLimit == 400
\* exit status of a Rust process that panics (entity.id.unwrap() on None)
PanicExit == 101

-----------------------------------------------------------------------------
(* Values *)

None == <<>>
Some(x) == <<x>>
IsSome(o) == Len(o) = 1
unwrap(o) == o[1]

\* struct-type names of entities, as character sequences
Entity_Wheel == <<"E","n","t","i","t","y","_","W","h","e","e","l">>
Entity_Ball == <<"E","n","t","i","t","y","_","B","a","l","l">>
Entity_WheelSmall == Entity_Wheel \o <<"S","m","a","l","l">>
Entity_Whee == <<"E","n","t","i","t","y","_","W","h","e","e">>
Entity_DynamicBrickGrid ==
    <<"E","n","t","i","t","y","_","D","y","n","a","m","i","c",
      "B","r","i","c","k","G","r","i","d">>

starts_with(s, p) == Len(p) <= Len(s) /\ SubSeq(s, 1, Len(p)) = p

PointLight == "BrickComponentData_PointLight"
SpotLight == "BrickComponentData_SpotLight"
WeightBrick == "BrickComponentData_WeightBrick"
WheelEngine == "BrickComponentData_WheelEngine"
Button == "BrickComponentData_Button"

SeqUpTo(S, n) == UNION {[1..k -> S] : k \in 0..n}

RECURSIVE SumSeq(_)
SumSeq(s) == IF s = <<>> THEN 0 ELSE s[1] + SumSeq(Tail(s))

-----------------------------------------------------------------------------
(* Input worlds *)

GridIds == {1, 2, 3}

Entities ==
    [id: {None, Some(1), Some(2), Some(3)}, type: {Entity_DynamicBrickGrid}, frozen: {FALSE}]
    \cup [id: {None, Some(4)}, type: {Entity_WheelSmall}, frozen: BOOLEAN]
    \cup [id: {Some(4)}, type: {Entity_Ball, Entity_Whee}, frozen: BOOLEAN]

Component(n, r, b, s, x, y, z, m, cm) ==
    [name |-> n, Radius |-> r, Brightness |-> b, bCastShadows |-> s,
     MassSize |-> [X |-> x, Y |-> y, Z |-> z], Mass |-> m, CustomMass |-> cm]

Components ==
    {Component(PointLight, r, b, FALSE, 0, 0, 0, 0, 0) : r \in {5000, 6000}, b \in {400, 900}}
    \cup {Component(SpotLight, 4000, 400, TRUE, 0, 0, 0, 0, 0)}
    \cup {Component(WeightBrick, 0, 0, FALSE, x, 0, -1, m, 0) : x \in {0, 1}, m \in {0, 5}}
    \cup {Component(WeightBrick, 0, 0, FALSE, 0, 2, 3, 0, 0)}
    \cup {Component(WheelEngine, 0, 0, FALSE, 0, 0, 0, 0, cm) : cm \in {0, 3}}
    \cup {Component(Button, 9000, 900, TRUE, 1, 1, 1, 1, 1)}

Passive == Component(Button, 9000, 900, TRUE, 1, 1, 1, 1, 1)

DefaultEntities ==
    << [id |-> Some(2), type |-> Entity_DynamicBrickGrid, frozen |-> FALSE],
       [id |-> Some(4), type |-> Entity_WheelSmall, frozen |-> FALSE] >>

DefaultComponents ==
    << Component(PointLight, 6000, 900, FALSE, 0, 0, 0, 0, 0),
       Component(WeightBrick, 0, 0, FALSE, 1, 0, -1, 5, 0) >>

Healthy(id, comps) == [id |-> id, num_components |-> Len(comps), ok |-> TRUE, components |-> comps]
Corrupt(id) == [id |-> id, num_components |-> 1, ok |-> FALSE, components |-> <<>>]
Empty(id) == [id |-> id, num_components |-> 0, ok |-> TRUE, components |-> <<>>]

Layouts == {"plain", "corrupt"}

Bricks(layout, comps) ==
    [g \in GridIds |->
        IF g = MainGrid
        THEN << Empty("-1_0_0"),
                IF layout = "corrupt" THEN Corrupt("0_0_0") ELSE Healthy("0_0_0", <<Passive>>),
                Healthy("1_0_0", comps) >>
        ELSE IF g = 2
        THEN << Healthy("0_0_0", comps) >>
        ELSE << IF layout = "corrupt" THEN Corrupt("0_0_0") ELSE Empty("0_0_0"),
                Healthy("0_0_1", comps) >>]

World(ents, split, layout, comps) ==
    LET n == IF split <= Len(ents) THEN split ELSE Len(ents)
    IN  [entities |-> << [index |-> "0_0_0", entities |-> SubSeq(ents, 1, n)],
                         [index |-> "1_0_0", entities |-> SubSeq(ents, n + 1, Len(ents))] >>,
         bricks |-> Bricks(layout, comps)]

Stale == [entities |-> <<>>, bricks |-> [g \in GridIds |-> <<>>]]

-----------------------------------------------------------------------------
(* The chunk store (brdb crate) as the program uses it *)

entity_chunk_index(db) == [k \in 1..Len(db.entities) |-> db.entities[k].index]

entity_chunk(db, k) == db.entities[k].entities

brick_chunk_index(db, grid) == db.bricks[grid]

\* component_chunk(grid, chunk): Ok((soa, components)) or Err
component_chunk_ok(chunk) == chunk.ok

\* BrPendingFs nodes
File(content) == [kind |-> "File", content |-> content, children |-> <<>>]
Folder(children) == [kind |-> "Folder", content |-> <<>>, children |-> children]
Entry(name, node) == [name |-> name, node |-> node]

\* format!("{chunk}.mps")
MpsName(chunk) == <<chunk, ".mps">>

\* soa.to_bytes(schema): the encoded chunk holds the members of the SoA, in order
to_bytes(soa) == [mps |-> soa]
from_bytes(bytes) == bytes.mps

\* the node at `path` below `node`, None when there is none (the last entry
\* of a name wins, as successive overlays do)
RECURSIVE Lookup(_, _)
Lookup(node, path) ==
    IF path = <<>> THEN Some(node)
    ELSE LET hits == {k \in 1..Len(node.children) : node.children[k].name = Head(path)}
         IN  IF node.kind # "Folder" \/ hits = {} THEN None
             ELSE Lookup(node.children[CHOOSE k \in hits : \A j \in hits : j <= k].node,
                         Tail(path))

EntityChunkPath(index) == <<"World", "0", "Entities", "Chunks", MpsName(index)>>
ComponentChunkPath(grid, id) ==
    <<"World", "0", "Bricks", "Grids", ToString(grid), "Components", MpsName(id)>>

\* db.to_pending()?.with_patch(entities_patch)?.with_patch(components_patch)?
\* written by write_pending: the source with the patched chunk files replaced
with_patch(db, epatch, cpatch) ==
    [entities |->
        [k \in 1..Len(db.entities) |->
            LET f == Lookup(epatch, EntityChunkPath(db.entities[k].index))
            IN  IF IsSome(f)
                THEN [db.entities[k] EXCEPT !.entities = from_bytes(unwrap(f).content)]
                ELSE db.entities[k]],
     bricks |->
        [g \in GridIds |->
            [k \in 1..Len(db.bricks[g]) |->
                LET f == Lookup(cpatch, ComponentChunkPath(g, db.bricks[g][k].id))
                IN  IF IsSome(f)
                    THEN [db.bricks[g][k] EXCEPT !.components = from_bytes(unwrap(f).content)]
                    ELSE db.bricks[g][k]]]]

-----------------------------------------------------------------------------
(* Rules *)

IsWheelOrBall(ent_type) ==
    starts_with(ent_type, Entity_Wheel) \/ starts_with(ent_type, Entity_Ball)

\* faulty variant: the type test is dropped
FreezeEntityAny(entity) ==
    IF ~entity.frozen
    THEN [entity |-> [entity EXCEPT !.frozen = TRUE], changed |-> TRUE]
    ELSE [entity |-> entity, changed |-> FALSE]

\* lines 84-91: the entity after the freeze rule, and whether it was changed
FreezeEntity(entity) ==
    IF IsWheelOrBall(entity.type) /\ ~entity.frozen
    THEN [entity |-> [entity EXCEPT !.frozen = TRUE], changed |-> TRUE]
    ELSE [entity |-> entity, changed |-> FALSE]

\* `id as u32`: entity identifiers are decoded from u32 persistent indices, so
\* the cast keeps every value an identifier can take
as_u32(n) == n

\* soa.add_entity(&global_data, &entity, entity.id.unwrap() as u32)
add_entity(soa, entity, index) == Append(soa, [entity EXCEPT !.id = Some(index)])

\* lines 79-102 over one chunk; stops where entity.id.unwrap() panics
RECURSIVE FreezeLoop(_, _)
FreezeLoop(entities, acc) ==
    IF entities = <<>> THEN acc
    ELSE LET entity == Head(entities)
             r == FreezeEntity(entity)
         IN  IF entity.id = None
             THEN [acc EXCEPT !.panicked = TRUE]
             ELSE FreezeLoop(Tail(entities),
                     [soa |-> add_entity(acc.soa, r.entity, as_u32(unwrap(r.entity.id))),
                      modified |-> acc.modified + (IF r.changed THEN 1 ELSE 0),
                      panicked |-> FALSE])

\* lines 197-228
WeightRule(component) ==
    LET size == component.MassSize
        x == IF size.X > 0 THEN 0 ELSE size.X
        y == IF size.Y > 0 THEN 0 ELSE size.Y
        z == IF size.Z > 0 THEN 0 ELSE size.Z
        m == IF component.Mass > 0 THEN 0 ELSE component.Mass
    IN  [component |-> [component EXCEPT !.MassSize = [X |-> x, Y |-> y, Z |-> z],
                                         !.Mass = m],
         weight_modified |-> size.X > 0 \/ size.Y > 0 \/ size.Z > 0 \/ component.Mass > 0]

\* lines 230-241
WheelEngineRule(component) ==
    IF component.CustomMass > 0
    THEN [component |-> [component EXCEPT !.CustomMass = 0], modified |-> TRUE]
    ELSE [component |-> component, modified |-> FALSE]

\* faulty variant: the comparisons are >= instead of >
LightRuleInclusive(component) ==
    LET r == IF component.Radius >= RadiusLimit THEN RadiusLimit ELSE component.Radius
        b == IF component.Brightness >= BrightnessLimit
             THEN BrightnessLimit ELSE component.Brightness
    IN  [component |-> [component EXCEPT !.Radius = r, !.Brightness = b,
                                         !.bCastShadows = FALSE],
         modified |-> component.Radius >= RadiusLimit
                      \/ component.Brightness >= BrightnessLimit
                      \/ component.bCastShadows]

\* lines 251-283
LightRule(component) ==
    LET r == IF component.Radius > RadiusLimit THEN RadiusLimit ELSE component.Radius
        b == IF component.Brightness > BrightnessLimit
             THEN BrightnessLimit ELSE component.Brightness
    IN  [component |-> [component EXCEPT !.Radius = r, !.Brightness = b,
                                         !.bCastShadows = FALSE],
         modified |-> component.Radius > RadiusLimit
                      \/ component.Brightness > BrightnessLimit
                      \/ component.bCastShadows]

\* faulty variant: the weight and engine rules are not limited to the main grid
OptimizeComponentAnyGrid(grid, component) ==
    LET w == IF component.name = WeightBrick
             THEN WeightRule(component)
             ELSE [component |-> component, weight_modified |-> FALSE]
        e == IF w.component.name = WheelEngine
             THEN WheelEngineRule(w.component)
             ELSE [component |-> w.component, modified |-> FALSE]
        l == IF e.component.name = PointLight \/ e.component.name = SpotLight
             THEN LightRule(e.component)
             ELSE [component |-> e.component, modified |-> FALSE]
        modified == w.weight_modified \/ e.modified \/ l.modified
    IN  [component |-> l.component,
         modified |-> modified,
         counted |-> (IF w.weight_modified THEN 1 ELSE 0) + (IF modified THEN 1 ELSE 0)]

\* lines 187-289 for one component: the component pushed to the SoA, the value
\* of `modified`, and the increments of num_components_modified
OptimizeComponent(grid, component) ==
    LET w == IF grid = MainGrid /\ component.name = WeightBrick
             THEN WeightRule(component)
             ELSE [component |-> component, weight_modified |-> FALSE]
        e == IF grid = MainGrid /\ w.component.name = WheelEngine
             THEN WheelEngineRule(w.component)
             ELSE [component |-> w.component, modified |-> FALSE]
        l == IF e.component.name = PointLight \/ e.component.name = SpotLight
             THEN LightRule(e.component)
             ELSE [component |-> e.component, modified |-> FALSE]
        modified == w.weight_modified \/ e.modified \/ l.modified
    IN  [component |-> l.component,
         modified |-> modified,
         counted |-> (IF w.weight_modified THEN 1 ELSE 0) + (IF modified THEN 1 ELSE 0)]

\* faulty variant: only the modified components are pushed to the SoA
RECURSIVE ComponentLoopModifiedOnly(_, _, _)
ComponentLoopModifiedOnly(grid, components, acc) ==
    IF components = <<>> THEN acc
    ELSE LET r == OptimizeComponent(grid, Head(components))
             m == IF r.modified THEN 1 ELSE 0
         IN  ComponentLoopModifiedOnly(grid, Tail(components),
                 [soa |-> IF r.modified THEN Append(acc.soa, r.component) ELSE acc.soa,
                  num_chunk_modified |-> acc.num_chunk_modified + m,
                  num_grid_modified |-> acc.num_grid_modified + m,
                  num_components_modified |-> acc.num_components_modified + r.counted])

\* lines 184-297 over the components of one chunk
RECURSIVE ComponentLoop(_, _, _)
ComponentLoop(grid, components, acc) ==
    IF components = <<>> THEN acc
    ELSE LET r == OptimizeComponent(grid, Head(components))
             m == IF r.modified THEN 1 ELSE 0
         IN  ComponentLoop(grid, Tail(components),
                 [soa |-> Append(acc.soa, r.component),
                  num_chunk_modified |-> acc.num_chunk_modified + m,
                  num_grid_modified |-> acc.num_grid_modified + m,
                  num_components_modified |-> acc.num_components_modified + r.counted])

\* lines 138-149 over the entities of one chunk
RECURSIVE CollectLoop(_, _)
CollectLoop(entities, ids) ==
    IF entities = <<>> THEN ids
    ELSE LET entity == Head(entities)
         IN  CollectLoop(Tail(entities),
                 IF entity.type = Entity_DynamicBrickGrid /\ IsSome(entity.id)
                 THEN Append(ids, unwrap(entity.id))
                 ELSE ids)

RECURSIVE CollectGrids(_, _, _)
CollectGrids(db, k, ids) ==
    IF k > Len(entity_chunk_index(db)) THEN ids
    ELSE CollectGrids(db, k + 1, CollectLoop(entity_chunk(db, k), ids))

-----------------------------------------------------------------------------
(* main *)

\* lines 54-56, 65: the state of main when the scan starts
Start(world, dest, n, out) ==
    /\ src = world
    /\ dst = dest
    /\ pc = "freeze"
    /\ chunk_i = 1
    /\ num_entities_modified = 0
    /\ num_components_modified = 0
    /\ corrupted = FALSE
    /\ entity_chunk_files = <<>>
    /\ entities_patch = Folder(<<>>)
    /\ grid_ids = <<>>
    /\ grid_i = 1
    /\ brick_i = 1
    /\ chunk_files = <<>>
    /\ num_grid_modified = 0
    /\ brick_grids_folder = <<>>
    /\ components_patch = Folder(<<>>)
    /\ exit_code = -1
    /\ stdout = out
    /\ fs_log = <<>>
    /\ visited = {}
    /\ grid_log = <<>>
    /\ run = n

Worlds ==
    {World(ents, split, layout, DefaultComponents) :
        ents \in SeqUpTo(Entities, MaxEntities), split \in 0..1, layout \in Layouts}
    \cup {World(DefaultEntities, 1, layout, comps) :
        layout \in Layouts, comps \in SeqUpTo(Components, MaxComponents)}

Init ==
    \E world \in Worlds, dest \in {None, Some(Stale)} :
        Start(world, dest, 1, <<>>)

chunks == brick_chunk_index(src, grid_ids[grid_i])

\* lines 66-110, one entity chunk, every identifier present
FreezeChunk ==
    /\ pc = "freeze"
    /\ chunk_i <= Len(entity_chunk_index(src))
    /\ LET chunk == entity_chunk_index(src)[chunk_i]
           r == FreezeLoop(entity_chunk(src, chunk_i),
                           [soa |-> <<>>, modified |-> num_entities_modified,
                            panicked |-> FALSE])
       IN  /\ ~r.panicked
           /\ num_entities_modified' = r.modified
           /\ entity_chunk_files' =
                 Append(entity_chunk_files, Entry(MpsName(chunk), File(to_bytes(r.soa))))
    /\ chunk_i' = chunk_i + 1
    /\ UNCHANGED <<src, dst, pc, num_components_modified, corrupted, entities_patch,
                   grid_ids, grid_i, brick_i, chunk_files, num_grid_modified,
                   brick_grids_folder, components_patch, exit_code, stdout, fs_log,
                   visited, grid_log, run>>

\* lines 88, 101: entity.id.unwrap() on an entity without identifier
FreezePanic ==
    /\ pc = "freeze"
    /\ chunk_i <= Len(entity_chunk_index(src))
    /\ LET r == FreezeLoop(entity_chunk(src, chunk_i),
                           [soa |-> <<>>, modified |-> num_entities_modified,
                            panicked |-> FALSE])
       IN  /\ r.panicked
           /\ num_entities_modified' = r.modified
    /\ pc' = "exited"
    /\ exit_code' = PanicExit
    /\ UNCHANGED <<src, dst, chunk_i, num_components_modified, corrupted,
                   entity_chunk_files, entities_patch, grid_ids, grid_i, brick_i,
                   chunk_files, num_grid_modified, brick_grids_folder, components_patch,
                   stdout, fs_log, visited, grid_log, run>>

\* lines 116-128
BuildEntitiesPatch ==
    /\ pc = "freeze"
    /\ chunk_i > Len(entity_chunk_index(src))
    /\ entities_patch' =
          Folder(<<Entry("World", Folder(<<Entry("0", Folder(<<Entry("Entities",
              Folder(<<Entry("Chunks", Folder(entity_chunk_files))>>))>>))>>))>>)
    /\ pc' = "collect"
    /\ UNCHANGED <<src, dst, chunk_i, num_entities_modified, num_components_modified,
                   corrupted, entity_chunk_files, grid_ids, grid_i, brick_i, chunk_files,
                   num_grid_modified, brick_grids_folder, components_patch, exit_code,
                   stdout, fs_log, visited, grid_log, run>>

\* lines 137-155
CollectGridIds ==
    /\ pc = "collect"
    /\ grid_ids' = CollectGrids(src, 1, <<MainGrid>>)
    /\ brick_grids_folder' = <<>>
    /\ grid_i' = 1
    /\ pc' = "grids"
    /\ UNCHANGED <<src, dst, chunk_i, num_entities_modified, num_components_modified,
                   corrupted, entity_chunk_files, entities_patch, brick_i, chunk_files,
                   num_grid_modified, components_patch, exit_code, stdout, fs_log,
                   visited, grid_log, run>>

\* lines 158-162
BeginGrid ==
    /\ pc = "grids"
    /\ grid_i <= Len(grid_ids)
    /\ chunk_files' = <<>>
    /\ num_grid_modified' = 0
    /\ brick_i' = 1
    /\ pc' = "chunks"
    /\ UNCHANGED <<src, dst, chunk_i, num_entities_modified, num_components_modified,
                   corrupted, entity_chunk_files, entities_patch, grid_ids, grid_i,
                   brick_grids_folder, components_patch, exit_code, stdout, fs_log,
                   visited, grid_log, run>>

\* lines 165-169
SkipEmptyChunk ==
    /\ pc = "chunks"
    /\ brick_i <= Len(chunks)
    /\ chunks[brick_i].num_components = 0
    /\ brick_i' = brick_i + 1
    /\ visited' = visited \cup {<<grid_i, brick_i>>}
    /\ UNCHANGED <<src, dst, pc, chunk_i, num_entities_modified, num_components_modified,
                   corrupted, entity_chunk_files, entities_patch, grid_ids, grid_i,
                   chunk_files, num_grid_modified, brick_grids_folder, components_patch,
                   exit_code, stdout, fs_log, grid_log, run>>

\* faulty variant: the decode error ends the run where it occurs
CorruptChunkAborts ==
    /\ pc = "chunks"
    /\ brick_i <= Len(chunks)
    /\ chunks[brick_i].num_components # 0
    /\ ~component_chunk_ok(chunks[brick_i])
    /\ corrupted' = TRUE
    /\ visited' = visited \cup {<<grid_i, brick_i>>}
    /\ pc' = "exited"
    /\ exit_code' = 1
    /\ UNCHANGED <<src, dst, chunk_i, num_entities_modified, num_components_modified,
                   entity_chunk_files, entities_patch, grid_ids, grid_i, brick_i,
                   chunk_files, num_grid_modified, brick_grids_folder, components_patch,
                   stdout, fs_log, grid_log, run>>

\* lines 172-181
CorruptChunk ==
    /\ pc = "chunks"
    /\ brick_i <= Len(chunks)
    /\ chunks[brick_i].num_components # 0
    /\ ~component_chunk_ok(chunks[brick_i])
    /\ corrupted' = TRUE
    /\ brick_i' = brick_i + 1
    /\ visited' = visited \cup {<<grid_i, brick_i>>}
    /\ UNCHANGED <<src, dst, pc, chunk_i, num_entities_modified, num_components_modified,
                   entity_chunk_files, entities_patch, grid_ids, grid_i, chunk_files,
                   num_grid_modified, brick_grids_folder, components_patch, exit_code,
                   stdout, fs_log, grid_log, run>>

\* faulty variant: every decoded chunk is written, modified or not
OptimizeChunkAlwaysWrites ==
    /\ pc = "chunks"
    /\ brick_i <= Len(chunks)
    /\ chunks[brick_i].num_components # 0
    /\ component_chunk_ok(chunks[brick_i])
    /\ LET chunk == chunks[brick_i]
           r == ComponentLoop(grid_ids[grid_i], chunk.components,
                    [soa |-> <<>>, num_chunk_modified |-> 0,
                     num_grid_modified |-> num_grid_modified,
                     num_components_modified |-> num_components_modified])
       IN  /\ num_grid_modified' = r.num_grid_modified
           /\ num_components_modified' = r.num_components_modified
           /\ chunk_files' =
                 Append(chunk_files, Entry(MpsName(chunk.id), File(to_bytes(r.soa))))
    /\ brick_i' = brick_i + 1
    /\ visited' = visited \cup {<<grid_i, brick_i>>}
    /\ UNCHANGED <<src, dst, pc, chunk_i, num_entities_modified, corrupted,
                   entity_chunk_files, entities_patch, grid_ids, grid_i,
                   brick_grids_folder, components_patch, exit_code, stdout, fs_log,
                   grid_log, run>>

\* lines 172-317
OptimizeChunk ==
    /\ pc = "chunks"
    /\ brick_i <= Len(chunks)
    /\ chunks[brick_i].num_components # 0
    /\ component_chunk_ok(chunks[brick_i])
    /\ LET chunk == chunks[brick_i]
           r == ComponentLoop(grid_ids[grid_i], chunk.components,
                    [soa |-> <<>>, num_chunk_modified |-> 0,
                     num_grid_modified |-> num_grid_modified,
                     num_components_modified |-> num_components_modified])
       IN  /\ num_grid_modified' = r.num_grid_modified
           /\ num_components_modified' = r.num_components_modified
           /\ chunk_files' =
                 IF r.num_chunk_modified > 0
                 THEN Append(chunk_files, Entry(MpsName(chunk.id), File(to_bytes(r.soa))))
                 ELSE chunk_files
    /\ brick_i' = brick_i + 1
    /\ visited' = visited \cup {<<grid_i, brick_i>>}
    /\ UNCHANGED <<src, dst, pc, chunk_i, num_entities_modified, corrupted,
                   entity_chunk_files, entities_patch, grid_ids, grid_i,
                   brick_grids_folder, components_patch, exit_code, stdout, fs_log,
                   grid_log, run>>

\* lines 320-345
EndGrid ==
    /\ pc = "chunks"
    /\ brick_i > Len(chunks)
    /\ brick_grids_folder' =
          IF num_grid_modified > 0
          THEN Append(brick_grids_folder,
                      Entry(ToString(grid_ids[grid_i]),
                            Folder(<<Entry("Components", Folder(chunk_files))>>)))
          ELSE brick_grids_folder
    /\ grid_log' = Append(grid_log, num_grid_modified)
    /\ grid_i' = grid_i + 1
    /\ pc' = "grids"
    /\ UNCHANGED <<src, dst, chunk_i, num_entities_modified, num_components_modified,
                   corrupted, entity_chunk_files, entities_patch, grid_ids, brick_i,
                   chunk_files, num_grid_modified, components_patch, exit_code, stdout,
                   fs_log, visited, run>>

\* lines 349-353
CorruptedExit ==
    /\ pc = "grids"
    /\ grid_i > Len(grid_ids)
    /\ corrupted
    /\ pc' = "exited"
    /\ exit_code' = 1
    /\ UNCHANGED <<src, dst, chunk_i, num_entities_modified, num_components_modified,
                   corrupted, entity_chunk_files, entities_patch, grid_ids, grid_i,
                   brick_i, chunk_files, num_grid_modified, brick_grids_folder,
                   components_patch, stdout, fs_log, visited, grid_log, run>>

\* faulty variant: the components patch is built but not applied
WritePendingEntitiesOnly ==
    /\ pc = "grids"
    /\ grid_i > Len(grid_ids)
    /\ ~corrupted
    /\ LET patch == Folder(<<Entry("World", Folder(<<Entry("0", Folder(<<Entry("Bricks",
                        Folder(<<Entry("Grids", Folder(brick_grids_folder))>>))>>))>>))>>)
       IN  /\ components_patch' = patch
           /\ dst' = Some(with_patch(src, entities_patch, Folder(<<>>)))
    /\ stdout' = Append(stdout, <<num_entities_modified, num_components_modified>>)
    /\ fs_log' = (IF IsSome(dst) THEN <<"remove_file">> ELSE <<>>) \o <<"write_pending">>
    /\ pc' = "written"
    /\ UNCHANGED <<src, chunk_i, num_entities_modified, num_components_modified,
                   corrupted, entity_chunk_files, entities_patch, grid_ids, grid_i,
                   brick_i, chunk_files, num_grid_modified, brick_grids_folder, exit_code,
                   visited, grid_log, run>>

\* lines 359-393
WritePending ==
    /\ pc = "grids"
    /\ grid_i > Len(grid_ids)
    /\ ~corrupted
    /\ LET patch == Folder(<<Entry("World", Folder(<<Entry("0", Folder(<<Entry("Bricks",
                        Folder(<<Entry("Grids", Folder(brick_grids_folder))>>))>>))>>))>>)
       IN  /\ components_patch' = patch
           /\ dst' = Some(with_patch(src, entities_patch, patch))
    /\ stdout' = Append(stdout, <<num_entities_modified, num_components_modified>>)
    /\ fs_log' = (IF IsSome(dst) THEN <<"remove_file">> ELSE <<>>) \o <<"write_pending">>
    /\ pc' = "written"
    /\ UNCHANGED <<src, chunk_i, num_entities_modified, num_components_modified,
                   corrupted, entity_chunk_files, entities_patch, grid_ids, grid_i,
                   brick_i, chunk_files, num_grid_modified, brick_grids_folder, exit_code,
                   visited, grid_log, run>>

\* lines 395-397
ReturnOk ==
    /\ pc = "written"
    /\ pc' = "exited"
    /\ exit_code' = 0
    /\ UNCHANGED <<src, dst, chunk_i, num_entities_modified, num_components_modified,
                   corrupted, entity_chunk_files, entities_patch, grid_ids, grid_i,
                   brick_i, chunk_files, num_grid_modified, brick_grids_folder,
                   components_patch, stdout, fs_log, visited, grid_log, run>>

\* the tool is started again on the file it wrote (its destination is a new path)
RunAgain ==
    /\ pc = "exited"
    /\ exit_code = 0
    /\ run < MaxRuns
    /\ src' = unwrap(dst)
    /\ dst' = None
    /\ run' = run + 1
    /\ pc' = "freeze"
    /\ chunk_i' = 1
    /\ num_entities_modified' = 0
    /\ num_components_modified' = 0
    /\ corrupted' = FALSE
    /\ entity_chunk_files' = <<>>
    /\ entities_patch' = Folder(<<>>)
    /\ grid_ids' = <<>>
    /\ grid_i' = 1
    /\ brick_i' = 1
    /\ chunk_files' = <<>>
    /\ num_grid_modified' = 0
    /\ brick_grids_folder' = <<>>
    /\ components_patch' = Folder(<<>>)
    /\ exit_code' = -1
    /\ fs_log' = <<>>
    /\ visited' = {}
    /\ grid_log' = <<>>
    /\ UNCHANGED stdout

Next ==
    \/ FreezeChunk
    \/ FreezePanic
    \/ BuildEntitiesPatch
    \/ CollectGridIds
    \/ BeginGrid
    \/ SkipEmptyChunk
    \/ CorruptChunk
    \/ OptimizeChunk
    \/ EndGrid
    \/ CorruptedExit
    \/ WritePending
    \/ ReturnOk
    \/ RunAgain

Spec == Init /\ [][Next]_vars

-----------------------------------------------------------------------------
(* Vocabulary of the properties *)

Running == exit_code = -1
Panicked == exit_code = PanicExit

\* the scan of the grids is over (line 347 reached)
ScanDone == \/ pc = "grids" /\ grid_i > Len(grid_ids)
            \/ pc = "written"
            \/ pc = "exited" /\ ~Panicked

\* positions of the grid loop and of the chunk loop
Positions ==
    UNION {{<<gi, bi>> : bi \in 1..Len(brick_chunk_index(src, grid_ids[gi]))} :
              gi \in 1..Len(grid_ids)}

ChunkAt(pos) == brick_chunk_index(src, grid_ids[pos[1]])[pos[2]]

Decodable(chunk) == chunk.num_components # 0 /\ chunk.ok

IsLight(c) == c.name \in {PointLight, SpotLight}

\* what the rules ask of a component, stated on its property values
LightExceeds(c) ==
    IsLight(c) /\ (c.Radius > 5000 \/ c.Brightness > 400 \/ c.bCastShadows = TRUE)
WeightExceeds(c) ==
    c.name = WeightBrick
    /\ (c.MassSize.X > 0 \/ c.MassSize.Y > 0 \/ c.MassSize.Z > 0 \/ c.Mass > 0)
EngineExceeds(c) == c.name = WheelEngine /\ c.CustomMass > 0
NeedsChange(grid, c) ==
    LightExceeds(c) \/ (grid = 1 /\ (WeightExceeds(c) \/ EngineExceeds(c)))

ChunkNeedsChange(grid, chunk) ==
    Decodable(chunk) /\ \E k \in 1..Len(chunk.components) : NeedsChange(grid, chunk.components[k])

\* the file of chunk `id` of grid `grid` below a list of grid folders
GridFile(folders, grid, id) ==
    Lookup(Folder(folders), <<ToString(grid), "Components", MpsName(id)>>)

\* p is a prefix of t, by the suffix that completes it
HasPrefix(t, p) == \E n \in 0..Len(t) : SubSeq(t, 1, n) = p

Matches(entity) == HasPrefix(entity.type, Entity_Wheel) \/ HasPrefix(entity.type, Entity_Ball)

\* entities (chunk k, member j) of the source
EntityPlaces(upto) ==
    UNION {{<<k, j>> : j \in 1..Len(src.entities[k].entities)} :
              k \in {n \in 1..Len(src.entities) : n < upto}}

-----------------------------------------------------------------------------
(* C1: once a component chunk failed to decode, the scan still reaches every
   chunk of every grid of the grid-id list, the run ends with exit code 1, and
   the destination file is neither removed nor written. *)
CorruptionContained ==
    corrupted =>
        /\ fs_log = <<>>
        /\ dst \in {None, Some(Stale)}
        /\ pc # "written"
        /\ pc = "exited" => exit_code = 1 /\ visited = Positions

\* a corrupt chunk in the first grid, a later grid scanned, a stale destination kept
CorruptionContainedWitness ==
    /\ pc = "exited"
    /\ corrupted
    /\ Len(grid_ids) >= 2
    /\ ~ChunkAt(<<1, 2>>).ok
    /\ <<2, 1>> \in visited
    /\ num_components_modified > 0
    /\ dst = Some(Stale)

(* C2: at the end of the scan the component folders hold a file for chunk C
   of grid G exactly when a component of C had a property value changed by a
   rule; chunks without components, corrupt chunks and chunks whose components
   already satisfy the rules have no file. The patch built from the folders
   holds the same files. *)
PatchMinimal ==
    ScanDone =>
        \A pos \in Positions :
            LET grid == grid_ids[pos[1]]
                chunk == ChunkAt(pos)
            IN  /\ IsSome(GridFile(brick_grids_folder, grid, chunk.id))
                      <=> ChunkNeedsChange(grid, chunk)
                /\ pc = "written" =>
                      (IsSome(Lookup(components_patch, ComponentChunkPath(grid, chunk.id)))
                          <=> ChunkNeedsChange(grid, chunk))

\* a grid with a rewritten chunk next to a chunk that was decoded and left out
PatchMinimalWitness ==
    /\ pc = "written"
    /\ \E pos \in Positions :
          /\ Decodable(ChunkAt(pos))
          /\ ~ChunkNeedsChange(grid_ids[pos[1]], ChunkAt(pos))
          /\ \E other \in Positions :
                /\ other[1] = pos[1]
                /\ ChunkNeedsChange(grid_ids[other[1]], ChunkAt(other))

Idempotent ==
    run >= 2 =>
        /\ num_entities_modified = 0
        /\ num_components_modified = 0
        /\ brick_grids_folder = <<>>
        /\ chunk_files = <<>>
        /\ \A k \in 2..Len(stdout) : stdout[k] = <<0, 0>>
        /\ pc = "written" =>
              Lookup(components_patch, <<"World", "0", "Bricks", "Grids">>) = Some(Folder(<<>>))

\* the second run has finished, after a first run that changed entities and components
IdempotentWitness ==
    /\ run = 2
    /\ pc = "exited"
    /\ exit_code = 0
    /\ Len(stdout) = 2
    /\ stdout[1][1] > 0
    /\ stdout[1][2] > 0

\* the written component keeps its name and every property no rule of its type sets
ComponentKept(in, out) ==
    /\ out.name = in.name
    /\ ~IsLight(in) =>
          /\ out.Radius = in.Radius
          /\ out.Brightness = in.Brightness
          /\ out.bCastShadows = in.bCastShadows
    /\ in.name # WeightBrick => out.MassSize = in.MassSize /\ out.Mass = in.Mass
    /\ in.name # WheelEngine => out.CustomMass = in.CustomMass
    /\ ~LightExceeds(in) /\ ~WeightExceeds(in) /\ ~EngineExceeds(in) => out = in

\* the chunk files `files` of grid `grid` hold the members of their source chunks
MembersKept(grid, files) ==
    \A f \in 1..Len(files) :
        \E bi \in 1..Len(brick_chunk_index(src, grid)) :
            LET chunk == brick_chunk_index(src, grid)[bi]
                out == from_bytes(files[f].node.content)
            IN  /\ files[f].name = MpsName(chunk.id)
                /\ Len(out) = Len(chunk.components)
                /\ \A k \in 1..Len(out) : ComponentKept(chunk.components[k], out[k])

(* C5: every rewritten entity chunk and every rewritten component chunk holds
   as many members as the source chunk, in the same order, and each member
   differs from its source only in the fields a rule changes. *)
MembershipPreserved ==
    /\ \A k \in 1..Len(entity_chunk_files) :
          LET in == entity_chunk(src, k)
              out == from_bytes(entity_chunk_files[k].node.content)
          IN  /\ entity_chunk_files[k].name = MpsName(entity_chunk_index(src)[k])
              /\ Len(out) = Len(in)
              /\ \A j \in 1..Len(out) :
                    /\ out[j].id = in[j].id
                    /\ out[j].type = in[j].type
                    /\ ~Matches(in[j]) => out[j] = in[j]
    /\ pc = "chunks" => MembersKept(grid_ids[grid_i], chunk_files)
    /\ \A f \in 1..Len(brick_grids_folder) :
          \E g \in GridIds :
              /\ brick_grids_folder[f].name = ToString(g)
              /\ MembersKept(g, brick_grids_folder[f].node.children[1].node.children)

\* a rewritten component chunk with a changed member followed by an unchanged one
MembershipPreservedWitness ==
    /\ pc = "written"
    /\ Len(entity_chunk_files[2].node.content.mps) = 2
    /\ \E pos \in Positions :
          LET chunk == ChunkAt(pos)
              f == GridFile(brick_grids_folder, grid_ids[pos[1]], chunk.id)
          IN  /\ IsSome(f)
              /\ Len(chunk.components) = 2
              /\ from_bytes(unwrap(f).content)[1] # chunk.components[1]
              /\ from_bytes(unwrap(f).content)[2] = chunk.components[2]

\* lights of a component list that a light rule has to change
LightCount(components) ==
    Cardinality({k \in 1..Len(components) : LightExceeds(components[k])})

\* changed lights of the chunks of a grid
RECURSIVE LightsToChange(_)
LightsToChange(bricks) ==
    IF bricks = <<>> THEN 0
    ELSE (IF Decodable(Head(bricks)) THEN LightCount(Head(bricks).components) ELSE 0)
         + LightsToChange(Tail(bricks))

(* C6 as stated: after the scan of the entity chunks the grid-id list starts
   with 1, continues with the identifiers of the dynamic-grid entities in
   first-seen order and holds no identifier twice. *)
GridIdsDistinct ==
    pc \in {"grids", "chunks", "written"} =>
        /\ grid_ids[1] = 1
        /\ \A a, b \in 1..Len(grid_ids) : grid_ids[a] = grid_ids[b] => a = b
        /\ \A f, g \in 1..Len(brick_grids_folder) :
              brick_grids_folder[f].name = brick_grids_folder[g].name => f = g

(* C7: on a grid other than 1 a WeightBrick or WheelEngine component is
   written as it was read, whatever its mass values, and the grid's counter
   and folder rest on its lights alone; lights are clamped on every grid. *)
PrimaryGridScoping ==
    \A gi \in 1..Len(grid_log) :
        LET grid == grid_ids[gi]
            bricks == brick_chunk_index(src, grid)
        IN  grid # 1 =>
              /\ grid_log[gi] = LightsToChange(bricks)
              /\ \A bi \in 1..Len(bricks) :
                    LET f == GridFile(brick_grids_folder, grid, bricks[bi].id)
                    IN  /\ IsSome(f) <=>
                              (Decodable(bricks[bi])
                               /\ LightCount(bricks[bi].components) > 0)
                        /\ IsSome(f) =>
                              \A k \in 1..Len(bricks[bi].components) :
                                  LET in == bricks[bi].components[k]
                                      out == from_bytes(unwrap(f).content)[k]
                                  IN  /\ in.name \in {WeightBrick, WheelEngine} => out = in
                                      /\ IsLight(in) =>
                                            /\ out.Radius <= 5000
                                            /\ out.Brightness <= 400
                                            /\ out.bCastShadows = FALSE

\* grid 2 holds a chunk with a light to clamp and a weight brick with positive mass
PrimaryGridScopingWitness ==
    /\ ScanDone
    /\ Len(grid_log) >= 2
    /\ grid_ids[2] = 2
    /\ \E bi \in 1..Len(src.bricks[2]) :
          /\ IsSome(GridFile(brick_grids_folder, 2, src.bricks[2][bi].id))
          /\ \E k \in 1..Len(src.bricks[2][bi].components) :
                WeightExceeds(src.bricks[2][bi].components[k])

(* C8: every entity written to a rewritten entity chunk is frozen if its type
   name starts with Entity_Wheel or Entity_Ball and keeps its frozen flag
   otherwise, its other attributes are those read, and the entity counter is
   the number of entities of such a type that were read unfrozen. *)
FreezeRule ==
    /\ \A k \in 1..Len(entity_chunk_files) :
          LET in == entity_chunk(src, k)
              out == from_bytes(entity_chunk_files[k].node.content)
          IN  \A j \in 1..Len(in) :
                  /\ out[j].frozen = (IF Matches(in[j]) THEN TRUE ELSE in[j].frozen)
                  /\ out[j] = [in[j] EXCEPT !.frozen = out[j].frozen]
    /\ ~Panicked =>
          num_entities_modified =
              Cardinality({p \in EntityPlaces(IF pc = "freeze" THEN chunk_i
                                              ELSE Len(src.entities) + 1) :
                              LET e == src.entities[p[1]].entities[p[2]]
                              IN  Matches(e) /\ ~e.frozen})

\* wheels read frozen and unfrozen, a ball, and an entity of another type kept unfrozen
FreezeRuleWitness ==
    /\ pc = "collect"
    /\ num_entities_modified = 1
    /\ \E p \in EntityPlaces(3) :
          LET e == src.entities[p[1]].entities[p[2]]
          IN  e.type = Entity_Whee /\ ~e.frozen
    /\ \E p \in EntityPlaces(3) :
          LET e == src.entities[p[1]].entities[p[2]]
          IN  e.type = Entity_WheelSmall /\ ~e.frozen

\* components of the scanned grids that a rule has to change: <<grid, chunk, member>>
ComponentsToChange ==
    UNION {{<<grid_ids[pos[1]], pos[2], k>> :
                k \in {n \in 1..Len(ChunkAt(pos).components) :
                          /\ Decodable(ChunkAt(pos))
                          /\ NeedsChange(grid_ids[pos[1]], ChunkAt(pos).components[n])}} :
              pos \in Positions}

(* C9 as stated: at the end of the scan the overall component counter is the
   number of components a rule changed and the sum of the per-grid counters,
   each changed component counted once. *)
CountersAccurate ==
    ScanDone =>
        /\ num_components_modified = Cardinality(ComponentsToChange)
        /\ num_components_modified = SumSeq(grid_log)

\* the source holds an entity without identifier
HasEntityWithoutId ==
    \E p \in EntityPlaces(Len(src.entities) + 1) :
        src.entities[p[1]].entities[p[2]].id = None

(* C10 as stated: an entity without identifier does not abort the run; it is
   written unchanged to its rewritten entity chunk. *)
EntityWithoutIdPassesThrough ==
    HasEntityWithoutId =>
        /\ ~Panicked
        /\ pc # "freeze" =>
              \A p \in EntityPlaces(Len(src.entities) + 1) :
                  LET e == src.entities[p[1]].entities[p[2]]
                  IN  e.id = None =>
                        from_bytes(entity_chunk_files[p[1]].node.content)[p[2]] = e

====
